---- MODULE Spec2Model ----
(***************************************************************************)
(* Model of model_evaluate_demo: the accuracy metric (answer extraction,   *)
(* normalization, comparison and aggregation, src/metrics/accuracy.py) and *)
(* the GSM8K dataset loader's cache logic (src/datasets/gsm8k.py).         *)
(*                                                                         *)
(* A Python str is a sequence of characters; a character is a one-letter   *)
(* string, or a bracketed name for a character outside ASCII or one the    *)
(* string syntax cannot hold: "<bs>" backslash, "<bt>" backtick, "<dq>" the   *)
(* double quote, "<lcb>" "<rcb>" "<lwcb>" "<rwcb>" the corner brackets,     *)
(* "<pi>" the Greek letter pi, "<times>" and "<div>" the multiplication    *)
(* and division signs, "<fwlp>" "<fwrp>" "<fwcomma>" "<fwstop>"            *)
(* "<fwcolon>" the full-width ( ) , . : and "<da>" "<an>" "<shi>" "<wei>"  *)
(* "<yin>" "<ci>" "<suo>" "<yi>" "<zui>" "<zhong>" the Chinese characters  *)
(* of the lead-in phrases.                                                 *)
(***************************************************************************)
EXTENDS Integers, Sequences, FiniteSets, TLC

VARIABLES
    text, pattern, extracted,          \* one call of _extract_answer
    answer, normalized, renormalized,  \* _normalize_answer, applied twice
    predictions, references,           \* one call of compute: its arguments,
    answer_pattern, normalize, debug,  \*   its options,
    pc, idx,                           \*   its position,
    extracted_predictions, normalized_references,
    correct, details, paths, report,   \*   its locals and its result
    cache, served, data, max_samples   \* GSM8KDataset.load on a shared cache

vars == <<text, pattern, extracted, answer, normalized, renormalized,
          predictions, references, answer_pattern, normalize, debug, pc, idx,
          extracted_predictions, normalized_references, correct, details,
          paths, report, cache, served, data, max_samples>>

extractVars == <<text, pattern, extracted>>
normVars == <<answer, normalized, renormalized>>
computeVars == <<predictions, references, answer_pattern, normalize, debug,
                 pc, idx, extracted_predictions, normalized_references,
                 correct, details, paths, report>>
loadVars == <<cache, served, data, max_samples>>

(***************************************************************************)
(* Characters and character classes of the regular expressions.            *)
(***************************************************************************)
Digit == {"0", "1", "2", "3", "4", "5", "6", "7", "8", "9"}
Whitespace == {" ", "\n", "\t"}
UpperCase == <<"A", "B", "C", "D", "E", "F", "G", "H", "I", "J", "K", "L", "M",
               "N", "O", "P", "Q", "R", "S", "T", "U", "V", "W", "X", "Y", "Z">>
LowerCase == <<"a", "b", "c", "d", "e", "f", "g", "h", "i", "j", "k", "l", "m",
               "n", "o", "p", "q", "r", "s", "t", "u", "v", "w", "x", "y", "z">>
UpperSet == {UpperCase[k] : k \in 1..26}

\* str.lower() of one character.
Lower(c) ==
    IF c \in UpperSet
    THEN LowerCase[CHOOSE k \in 1..26 : UpperCase[k] = c]
    ELSE c

MinOf(S) == CHOOSE m \in S : \A n \in S : m <= n
MaxOf(S) == CHOOSE m \in S : \A n \in S : m >= n

\* str.strip(): whitespace removed at both ends.
Strip(s) ==
    LET keep == {k \in 1..Len(s) : s[k] \notin Whitespace}
    IN  IF keep = {} THEN <<>> ELSE SubSeq(s, MinOf(keep), MaxOf(keep))

\* The literal lit stands in s at position p; ci: under re.IGNORECASE, for a
\* literal written in lower case.
LitAt(s, p, lit, ci) ==
    /\ p >= 1
    /\ p + Len(lit) - 1 <= Len(s)
    /\ \A k \in 1..Len(lit) :
          IF ci THEN Lower(s[p + k - 1]) = lit[k] ELSE s[p + k - 1] = lit[k]

\* The length of the longest run of characters of class C that starts at p.
RunLen(s, p, C) ==
    IF p > Len(s) \/ s[p] \notin C THEN 0
    ELSE LET stop == {q \in p..Len(s) : s[q] \notin C}
         IN  IF stop = {} THEN Len(s) - p + 1 ELSE MinOf(stop) - p

\* Position q is where $ matches (no re.MULTILINE): the end of the string, or
\* just before a newline that ends the string.
AtEnd(s, q) == q = Len(s) + 1 \/ (q = Len(s) /\ s[q] = "\n")

\* A result of a stage of the cascade: whether it matched and what it yields.
NoMatch == [ok |-> FALSE, g |-> <<>>]
Match(g) == [ok |-> TRUE, g |-> g]

(***************************************************************************)
(* _extract_answer, stage 1: the caller's pattern.  The caller's patterns  *)
(* of the model: none (None or ""), "group" r'#(\d+)', "nogroup" r'#\d+',  *)
(* "optgroup" r'(#)?(\d+)' whose first group need not take part in the     *)
(* match, and "invalid" r'(' which re cannot compile.                      *)
(***************************************************************************)
CallerPatterns == {"none", "group", "nogroup", "optgroup", "invalid"}

\* The leftmost "#" that digits follow, 0 if there is none.
HashDigits(s) ==
    LET at == {i \in 1..Len(s) : s[i] = "#" /\ RunLen(s, i + 1, Digit) >= 1}
    IN  IF at = {} THEN 0 ELSE MinOf(at)

\* Where re.search(r'(#)?(\d+)', s) matches: the leftmost digit, or the "#"
\* right before it; 0 if there is no digit.
OptGroupStart(s) ==
    LET at == {i \in 1..Len(s) :
                  \/ s[i] \in Digit
                  \/ (s[i] = "#" /\ RunLen(s, i + 1, Digit) >= 1)}
    IN  IF at = {} THEN 0 ELSE MinOf(at)

\* re.search(pattern, text) raises re.error, or matches.group(1) is None and
\* .strip() raises AttributeError.
PatternRaises(s, pat) ==
    \/ pat = "invalid"
    \/ pat = "optgroup" /\ OptGroupStart(s) # 0 /\ s[OptGroupStart(s)] # "#"

\* if matches and matches.groups(): return matches.group(1).strip()
PatternStage(s, pat) ==
    CASE pat = "group" ->
            IF HashDigits(s) = 0 THEN NoMatch
            ELSE LET i == HashDigits(s)
                 IN  Match(Strip(SubSeq(s, i + 1, i + RunLen(s, i + 1, Digit))))
      [] pat = "optgroup" ->
            IF OptGroupStart(s) # 0 /\ s[OptGroupStart(s)] = "#"
            THEN Match(<<"#">>) ELSE NoMatch
      [] OTHER -> NoMatch

(***************************************************************************)
(* Stage 2: boxed_pattern = r'\\boxed\{(.*?)\}'.                           *)
(***************************************************************************)
LitBoxed == <<"<bs>", "b", "o", "x", "e", "d", "{">>

\* The first "}" at or after p with no newline before it ("." does not match a
\* newline, ".*?" is lazy); 0 if there is none.
BoxedClose(s, p) ==
    LET at == {j \in p..Len(s) :
                  s[j] = "}" /\ \A k \in p..(j - 1) : s[k] # "\n"}
    IN  IF at = {} THEN 0 ELSE MinOf(at)

BoxedStage(s) ==
    LET at == {i \in 1..Len(s) :
                  LitAt(s, i, LitBoxed, FALSE) /\ BoxedClose(s, i + Len(LitBoxed)) # 0}
    IN  IF at = {} THEN NoMatch
        ELSE LET p == MinOf(at) + Len(LitBoxed)
             IN  Match(Strip(SubSeq(s, p, BoxedClose(s, p) - 1)))

(***************************************************************************)
(* Stage 3: the lead-in phrases, in list order, under re.IGNORECASE.  Each *)
(* is  <literal><colon>\s*(.+?)(?:<terminators>|$)  where the colon is     *)
(* optional or, in the second pattern, required.                           *)
(***************************************************************************)
BothColons == {":", "<fwcolon>"}
BothStops == {".", "<fwstop>"}
LeadIn(lit, colons, required, stops) ==
    [lit |-> lit, colons |-> colons, required |-> required, stops |-> stops]

patterns ==
    << LeadIn(<<"<da>", "<an>", "<shi>">>, BothColons, FALSE, BothStops),
       LeadIn(<<"<da>", "<an>">>, BothColons, TRUE, BothStops),
       LeadIn(<<"<da>", "<an>", "<wei>">>, BothColons, FALSE, BothStops),
       LeadIn(<<"t", "h", "e", " ", "a", "n", "s", "w", "e", "r", " ", "i", "s">>,
              {":"}, FALSE, {"."}),
       LeadIn(<<"a", "n", "s", "w", "e", "r">>, {":"}, FALSE, {"."}),
       LeadIn(<<"<yin>", "<ci>", "<da>", "<an>", "<wei>">>, {":"}, FALSE, BothStops),
       LeadIn(<<"<suo>", "<yi>", "<da>", "<an>", "<shi>">>, {":"}, FALSE, BothStops),
       LeadIn(<<"<yin>", "<ci>", "<da>", "<an>", "<shi>">>, {":"}, FALSE, BothStops),
       LeadIn(<<"<suo>", "<yi>", "<da>", "<an>", "<wei>">>, {":"}, FALSE, BothStops),
       LeadIn(<<"<zui>", "<zhong>", "<da>", "<an>">>, {":"}, FALSE, BothStops),
       LeadIn(<<"<zui>", "<zhong>", "<da>", "<an>", "<wei>">>, {":"}, FALSE, BothStops),
       LeadIn(<<"<zui>", "<zhong>", "<da>", "<an>", "<shi>">>, {":"}, FALSE, BothStops) >>

\* (.+?)(?:stops|$) with the group starting at gs: the least end ge of a
\* non-empty group without a newline that a terminator follows; 0 if none.
GroupEnd(s, gs, stops) ==
    LET at == {ge \in gs..Len(s) :
                  /\ \A k \in gs..ge : s[k] # "\n"
                  /\ \/ (ge + 1 <= Len(s) /\ s[ge + 1] \in stops)
                     \/ AtEnd(s, ge + 1)}
    IN  IF at = {} THEN 0 ELSE MinOf(at)

\* \s*(.+?)(...) from q: \s* is greedy and gives back one character at a time,
\* so the group starts after the longest run of whitespace that leaves a match;
\* 0 if no start does.
GroupStartFrom(s, q, stops) ==
    LET at == {gs \in q..(q + RunLen(s, q, Whitespace)) : GroupEnd(s, gs, stops) # 0}
    IN  IF at = {} THEN 0 ELSE MaxOf(at)

\* The start of the group when the literal ends right before p: the optional
\* colon is taken first and given up only if nothing matches with it.
GroupStart(s, p, lp) ==
    LET colon == p <= Len(s) /\ s[p] \in lp.colons
        with == IF colon THEN GroupStartFrom(s, p + 1, lp.stops) ELSE 0
    IN  IF with # 0 \/ lp.required THEN with ELSE GroupStartFrom(s, p, lp.stops)

\* re.search(p, text, re.IGNORECASE): the leftmost start of a match.
LeadInMatch(s, lp) ==
    LET at == {i \in 1..Len(s) :
                  LitAt(s, i, lp.lit, TRUE) /\ GroupStart(s, i + Len(lp.lit), lp) # 0}
    IN  IF at = {} THEN NoMatch
        ELSE LET gs == GroupStart(s, MinOf(at) + Len(lp.lit), lp)
             IN  Match(Strip(SubSeq(s, gs, GroupEnd(s, gs, lp.stops))))

\* for p in patterns: ... if matches: return matches.group(1).strip()
\* The first of two stage results that matched.
OrMatch(m, otherwise) == IF m.ok THEN m ELSE otherwise

RECURSIVE LeadInFrom(_, _)
LeadInFrom(s, n) ==
    IF n > Len(patterns) THEN NoMatch
    ELSE OrMatch(LeadInMatch(s, patterns[n]), LeadInFrom(s, n + 1))

LeadInStage(s) == LeadInFrom(s, 1)

(***************************************************************************)
(* Stage 4: code_output_pattern = r'<bt><bt><bt>output\s*\n([\d\.\+\-]+)'.          *)
(***************************************************************************)
LitOutput == <<"<bt>", "<bt>", "<bt>", "o", "u", "t", "p", "u", "t">>
OutputClass == Digit \cup {".", "+", "-"}

\* \s*\n([...]+) from p: the group's characters are no whitespace, so it starts
\* right after the whole run of whitespace, which must end in a newline.
OutputGroupStart(s, p) ==
    LET w == RunLen(s, p, Whitespace)
    IN  IF w >= 1 /\ s[p + w - 1] = "\n" /\ RunLen(s, p + w, OutputClass) >= 1
        THEN p + w ELSE 0

CodeOutputStage(s) ==
    LET at == {i \in 1..Len(s) :
                  LitAt(s, i, LitOutput, FALSE) /\ OutputGroupStart(s, i + Len(LitOutput)) # 0}
    IN  IF at = {} THEN NoMatch
        ELSE LET gs == OutputGroupStart(s, MinOf(at) + Len(LitOutput))
             IN  Match(Strip(SubSeq(s, gs, gs + RunLen(s, gs, OutputClass) - 1)))

(***************************************************************************)
(* Stage 5: equals_pattern =                                               *)
(*   r'=\s*([\d\.\+\-<pi>pi\/\*]+)(?:\s|$|\.|<fwstop>|,|<fwcomma>)'        *)
(* with re.findall; the last match is returned.                            *)
(***************************************************************************)
EqualsClass == Digit \cup {".", "+", "-", "<pi>", "p", "i", "/", "*"}
EqualsStops == Whitespace \cup {".", "<fwstop>", ",", "<fwcomma>"}

\* The match that starts at the "=" at i: the group is greedy and gives back
\* one character at a time until a terminator follows it.  next is where the
\* scan goes on: after the terminator, which $ does not consume.
EqualsAt(s, i) ==
    LET gs == i + 1 + RunLen(s, i + 1, Whitespace)
        n == RunLen(s, gs, EqualsClass)
        ends == {ge \in gs..(gs + n - 1) :
                    \/ (ge + 1 <= Len(s) /\ s[ge + 1] \in EqualsStops)
                    \/ AtEnd(s, ge + 1)}
    IN  IF i > Len(s) \/ s[i] # "=" \/ ends = {}
        THEN [ok |-> FALSE, g |-> <<>>, next |-> i]
        ELSE LET ge == MaxOf(ends)
             IN  [ok |-> TRUE, g |-> SubSeq(s, gs, ge),
                  next |-> IF ge + 1 <= Len(s) /\ s[ge + 1] \in EqualsStops
                           THEN ge + 2 ELSE ge + 1]

\* re.findall(equals_pattern, text): the groups of the matches found scanning
\* from the left, each search starting where the last match ended.
RECURSIVE EqualsFindAll(_, _)
EqualsFindAll(s, from) ==
    LET at == {i \in from..Len(s) : EqualsAt(s, i).ok}
    IN  IF at = {} THEN <<>>
        ELSE LET m == EqualsAt(s, MinOf(at))
             IN  <<m.g>> \o EqualsFindAll(s, m.next)

\* The first equality instead of the last.
EqualsPickFirst(found) == found[1]

\* equals_matches[-1]
EqualsPick(found) == found[Len(found)]

EqualsStage(s) ==
    LET equals_matches == EqualsFindAll(s, 1)
    IN  IF equals_matches = <<>> THEN NoMatch
        ELSE Match(Strip(EqualsPick(equals_matches)))

(***************************************************************************)
(* Stages 6 and 7: re.findall(r'[-+]?[\d\.]+(?:<pi>|pi)?', ...), the last  *)
(* match, on the whole text and then on its last line.                     *)
(***************************************************************************)
NumberClass == Digit \cup {"."}

\* The match that starts at i: an optional sign, the longest run of digits and
\* dots, an optional pi.
NumberAt(s, i) ==
    LET signed == i <= Len(s) /\ s[i] \in {"-", "+"} /\ RunLen(s, i + 1, NumberClass) >= 1
        ds == IF signed THEN i + 1 ELSE i
        de == ds + RunLen(s, ds, NumberClass) - 1
        suffix == IF de + 1 <= Len(s) /\ s[de + 1] = "<pi>" THEN 1
                  ELSE IF LitAt(s, de + 1, <<"p", "i">>, FALSE) THEN 2 ELSE 0
    IN  IF RunLen(s, ds, NumberClass) = 0
        THEN [ok |-> FALSE, g |-> <<>>, next |-> i]
        ELSE [ok |-> TRUE, g |-> SubSeq(s, i, de + suffix), next |-> de + suffix + 1]

RECURSIVE NumberFindAll(_, _)
NumberFindAll(s, from) ==
    LET at == {i \in from..Len(s) : NumberAt(s, i).ok}
    IN  IF at = {} THEN <<>>
        ELSE LET m == NumberAt(s, MinOf(at))
             IN  <<m.g>> \o NumberFindAll(s, m.next)

NumberStage(s) ==
    LET number_matches == NumberFindAll(s, 1)
    IN  IF number_matches = <<>> THEN NoMatch
        ELSE Match(number_matches[Len(number_matches)])

\* lines = text.strip().split('\n'); last_line = lines[-1].strip()
LastLine(s) ==
    LET t == Strip(s)
        nl == {k \in 1..Len(t) : t[k] = "\n"}
    IN  IF nl = {} THEN t ELSE Strip(SubSeq(t, MaxOf(nl) + 1, Len(t)))

LastLineNumberStage(s) == NumberStage(LastLine(s))

(***************************************************************************)
(* _extract_answer: the cascade.  A result is what the call returns, or    *)
(* that it raised.                                                         *)
(***************************************************************************)
Returned(v) == [raised |-> FALSE, val |-> v]
Raised == [raised |-> TRUE, val |-> <<>>]

\* The cascade with the lead-in phrases tried before the boxed expression.
CascadeLeadInFirst(s) ==
    OrMatch(LeadInStage(s),
    OrMatch(BoxedStage(s),
    OrMatch(CodeOutputStage(s),
    OrMatch(EqualsStage(s),
    OrMatch(NumberStage(s),
    OrMatch(LastLineNumberStage(s),
            Match(LastLine(s)))))))).g

\* The stages after the caller's pattern, in the order the code tries them.
Cascade(s) ==
    OrMatch(BoxedStage(s),
    OrMatch(LeadInStage(s),
    OrMatch(CodeOutputStage(s),
    OrMatch(EqualsStage(s),
    OrMatch(NumberStage(s),
    OrMatch(LastLineNumberStage(s),
            Match(LastLine(s)))))))).g

\* A value handed to the metric: a str, None, or a non-zero int.
Str(s) == [t |-> "str", s |-> s]
None == [t |-> "none", s |-> <<>>]
AnInt == [t |-> "int", s |-> <<>>]

\* if not text: None and the empty str are falsy; a non-zero int is not.
Falsy(v) == v.t = "none" \/ (v.t = "str" /\ v.s = <<>>)

\* _extract_answer(text, pattern).  re.search on a value that is no str raises
\* TypeError; nothing in the function catches an exception.
ExtractAnswer(v, pat) ==
    IF Falsy(v) THEN Returned(<<>>)
    ELSE IF v.t # "str" THEN Raised
    ELSE IF PatternRaises(v.s, pat) THEN Raised
    ELSE Returned(OrMatch(PatternStage(v.s, pat), Match(Cascade(v.s))).g)

(***************************************************************************)
(* _normalize_answer.                                                      *)
(***************************************************************************)
\* The class of  re.sub(r'[...]', '', answer): the corner brackets, the ASCII
\* brackets and the two ASCII quotes.  The full-width parentheses are not in it.
BracketClass == {"<lcb>", "<rcb>", "<lwcb>", "<rwcb>", "(", ")", "[", "]", "{", "}",
                 "<dq>", "'"}

RECURSIVE Remove(_, _)
Remove(s, C) ==
    IF s = <<>> THEN <<>>
    ELSE IF Head(s) \in C THEN Remove(Tail(s), C)
    ELSE <<Head(s)>> \o Remove(Tail(s), C)

LowerAll(s) == [k \in 1..Len(s) |-> Lower(s[k])]

\* re.sub(r'\s+', ' ', answer): every run of whitespace becomes one space.
RECURSIVE CollapseWhitespace(_)
CollapseWhitespace(s) ==
    IF s = <<>> THEN <<>>
    ELSE IF Head(s) \in Whitespace
         THEN <<" ">> \o CollapseWhitespace(SubSeq(s, RunLen(s, 1, Whitespace) + 1, Len(s)))
    ELSE <<Head(s)>> \o CollapseWhitespace(Tail(s))

\* The chain of str.replace calls on the mathematical symbols.
Canonical(c) ==
    CASE c = "<times>" -> "*"
      [] c = "<div>" -> "/"
      [] c = "<fwlp>" -> "("
      [] c = "<fwrp>" -> ")"
      [] c = "<fwcomma>" -> ","
      [] c = "<fwstop>" -> "."
      [] OTHER -> c

CanonicalAll(s) == [k \in 1..Len(s) |-> Canonical(s[k])]

\* A decimal numeral as float() reads it: an optional sign, digits with at most
\* one dot and at least one digit.  ok is false where float() raises
\* ValueError.  ip and fp are the digits before and after the dot, without the
\* zeros that do not count.
StripLeadingZeros(d) ==
    LET nz == {k \in 1..Len(d) : d[k] # "0"}
    IN  IF nz = {} THEN <<>> ELSE SubSeq(d, MinOf(nz), Len(d))

StripTrailingZeros(d) ==
    LET nz == {k \in 1..Len(d) : d[k] # "0"}
    IN  IF nz = {} THEN <<>> ELSE SubSeq(d, 1, MaxOf(nz))

Numeral(s) ==
    LET signed == s # <<>> /\ s[1] \in {"-", "+"}
        body == IF signed THEN Tail(s) ELSE s
        dots == {k \in 1..Len(body) : body[k] = "."}
        dot == IF dots = {} THEN Len(body) + 1 ELSE MinOf(dots)
    IN  IF \/ body = <<>>
           \/ \E k \in 1..Len(body) : body[k] \notin NumberClass
           \/ Cardinality(dots) > 1
           \/ Len(body) = Cardinality(dots)
        THEN [ok |-> FALSE, neg |-> FALSE, ip |-> <<>>, fp |-> <<>>]
        ELSE [ok |-> TRUE,
              neg |-> signed /\ s[1] = "-",
              ip |-> StripLeadingZeros(SubSeq(body, 1, dot - 1)),
              fp |-> StripTrailingZeros(SubSeq(body, dot + 1, Len(body)))]

\* re.match(r'^[-+]?[\d\.]+$', answer) on a stripped string.
NumericForm(s) ==
    LET body == IF s # <<>> /\ s[1] \in {"-", "+"} THEN Tail(s) ELSE s
    IN  body # <<>> /\ \A k \in 1..Len(body) : body[k] \in NumberClass

\* The digits of round(num, 5) kept in the model: at most FractionDigits after
\* the dot, where rounding changes nothing.  Beyond, the result depends on the
\* binary representation of num and the model leaves it undefined.
FractionDigits == 5

\* str(int(num)) if num.is_integer() else
\* str(round(num, 5)).rstrip('0').rstrip('.'): str() of a float below 1e-4
\* is in exponent notation.
Render(n) ==
    LET sign == IF n.neg THEN <<"-">> ELSE <<>>
    IN  IF n.fp = <<>>
        THEN IF n.ip = <<>> THEN <<"0">> ELSE sign \o n.ip
        ELSE IF Len(n.fp) > FractionDigits THEN CHOOSE x \in {} : TRUE
        ELSE IF n.ip = <<>> /\ Len(StripLeadingZeros(n.fp)) + 4 <= Len(n.fp)
             THEN sign \o StripLeadingZeros(n.fp) \o <<"e", "-", "0", "5">>
        ELSE sign \o (IF n.ip = <<>> THEN <<"0">> ELSE n.ip) \o <<".">> \o n.fp

\* The steps of _normalize_answer on a non-empty str.  The bare except keeps
\* the string when float() raises.
NormalizeStr(s) ==
    LET stripped == Remove(s, BracketClass)
        lowered == LowerAll(stripped)
        collapsed == Strip(CollapseWhitespace(lowered))
        canonical == CanonicalAll(collapsed)
    IN  IF NumericForm(canonical) /\ Numeral(canonical).ok
        THEN Render(Numeral(canonical))
        ELSE canonical

\* _normalize_answer(answer): "" for a falsy value; re.sub on a value that is
\* no str raises TypeError, outside the try.
NormalizeAnswer(v) ==
    IF Falsy(v) THEN Returned(<<>>)
    ELSE IF v.t # "str" THEN Raised
    ELSE Returned(NormalizeStr(v.s))

(***************************************************************************)
(* The comparison of compute: exact match, then numeric tolerance, then    *)
(* substring containment.  A float is held as an integer number of 1e-5,   *)
(* which is exact for a numeral of at most FractionDigits digits after the *)
(* dot; float() of the model reads the decimal numerals only (no exponent, *)
(* underscore, inf or nan, which the strings compared here never hold).    *)
(***************************************************************************)
Scale == 100000

DigitValue(c) == CHOOSE k \in 0..9 : <<"0", "1", "2", "3", "4", "5", "6", "7", "8", "9">>[k + 1] = c

RECURSIVE IntOf(_)
IntOf(d) ==
    IF d = <<>> THEN 0 ELSE 10 * IntOf(SubSeq(d, 1, Len(d) - 1)) + DigitValue(d[Len(d)])

RECURSIVE PadRight(_, _)
PadRight(d, n) == IF Len(d) >= n THEN d ELSE PadRight(d \o <<"0">>, n)

\* .replace('<pi>', 'pi')
RECURSIVE SpellPi(_)
SpellPi(s) ==
    IF s = <<>> THEN <<>>
    ELSE IF Head(s) = "<pi>" THEN <<"p", "i">> \o SpellPi(Tail(s))
    ELSE <<Head(s)>> \o SpellPi(Tail(s))

\* .replace('pi', '3.14159')
RECURSIVE ValuePi(_)
ValuePi(s) ==
    IF s = <<>> THEN <<>>
    ELSE IF LitAt(s, 1, <<"p", "i">>, FALSE)
         THEN <<"3", ".", "1", "4", "1", "5", "9">> \o ValuePi(SubSeq(s, 3, Len(s)))
    ELSE <<Head(s)>> \o ValuePi(Tail(s))

\* float(x.replace('<pi>', 'pi').replace('pi', '3.14159')): ok is false where
\* float() raises ValueError; float() ignores whitespace around the numeral.
ParseFloat(s) ==
    LET n == Numeral(Strip(ValuePi(SpellPi(s))))
    IN  IF ~n.ok THEN [ok |-> FALSE, num |-> 0]
        ELSE IF Len(n.fp) > FractionDigits THEN CHOOSE x \in {} : TRUE
        ELSE LET mag == IntOf(n.ip) * Scale + IntOf(PadRight(n.fp, FractionDigits))
             IN  [ok |-> TRUE, num |-> IF n.neg THEN 0 - mag ELSE mag]

\* A tolerance of 1e-2 instead of 1e-5.
WithinToleranceLoose(pred_num, ref_num) ==
    LET diff == IF pred_num >= ref_num THEN pred_num - ref_num ELSE ref_num - pred_num
    IN  diff < 1000

\* abs(pred_num - ref_num) < 1e-5, on numbers of 1e-5.
WithinTolerance(pred_num, ref_num) ==
    LET diff == IF pred_num >= ref_num THEN pred_num - ref_num ELSE ref_num - pred_num
    IN  diff < 1

\* needle in hay
Contains(hay, needle) ==
    \E p \in 1..(Len(hay) + 1) : LitAt(hay, p, needle, FALSE)

\* Containment tried in one direction only: ref in pred.
SubstringOneWay(pred, ref) == Contains(pred, ref)

\* pred in ref or ref in pred
SubstringEither(pred, ref) == Contains(ref, pred) \/ Contains(pred, ref)

Verdict(is_correct, path) == [raised |-> FALSE, is_correct |-> is_correct, path |-> path]
CompareRaised == [raised |-> TRUE, is_correct |-> FALSE, path |-> "raised"]

\* The body of the comparison loop for one pair: pred is a str; ref is a str,
\* or with normalize off whatever the caller passed.  On a ref that is no str,
\* .replace raises AttributeError, and pred in ref raises TypeError inside
\* the except clause: neither is caught.
Compare(pred, ref) ==
    IF ref.t = "str" /\ pred = ref.s THEN Verdict(TRUE, "exact")
    ELSE LET pred_num == ParseFloat(pred)
         IN  IF ref.t # "str" THEN CompareRaised
             ELSE IF ~pred_num.ok THEN Verdict(SubstringEither(pred, ref.s), "substring")
             ELSE LET ref_num == ParseFloat(ref.s)
                  IN  IF ~ref_num.ok
                      THEN Verdict(SubstringEither(pred, ref.s), "substring")
                      ELSE Verdict(WithinTolerance(pred_num.num, ref_num.num), "numeric")

(***************************************************************************)
(* The texts _extract_answer is called on: every concatenation of at most  *)
(* MaxFrags pieces, every lead-in phrase followed by a colon and a piece,  *)
(* and the texts the documentation names.                                  *)
(***************************************************************************)
MaxFrags == 3

Pieces ==
    << LitBoxed,
       <<"}">>,
       <<"t", "h", "e", " ", "a", "n", "s", "w", "e", "r", " ", "i", "s">>,
       LitOutput \o <<"\n">>,
       <<"=">>,
       <<"=", "1", "\n">>,
       <<"1">>,
       <<"2">>,
       <<".">>,
       <<" ">>,
       <<"\n">>,
       <<"#">> >>

RECURSIVE TextsOf(_)
TextsOf(n) ==
    IF n = 0 THEN {<<>>}
    ELSE LET shorter == TextsOf(n - 1)
         IN  shorter \cup {t \o Pieces[k] : t \in shorter, k \in 1..Len(Pieces)}

\* "a=1\nb=2"
TextTwoEqualities == <<"a", "=", "1", "\n", "b", "=", "2">>
\* "The answer is 42."
TextAnswerIs42 == <<"T", "h", "e", " ", "a", "n", "s", "w", "e", "r", " ", "i", "s",
                    " ", "4", "2", ".">>
\* "I think it's about 3.14"
TextAbout314 == <<"I", " ", "t", "h", "i", "n", "k", " ", "i", "t", "'", "s", " ",
                  "a", "b", "o", "u", "t", " ", "3", ".", "1", "4">>
\* "\boxed{ 7 } so the answer is 8."
TextBoxedThenAnswerIs ==
    LitBoxed \o <<" ", "7", " ", "}", " ", "s", "o", " ">>
    \o <<"t", "h", "e", " ", "a", "n", "s", "w", "e", "r", " ", "i", "s", " ", "8", ".">>
\* "the answer is 8. \boxed{7}"
TextAnswerIsThenBoxed ==
    <<"t", "h", "e", " ", "a", "n", "s", "w", "e", "r", " ", "i", "s", " ", "8", ".", " ">>
    \o LitBoxed \o <<"7", "}">>

\* Each lead-in phrase of the list, and "Answer", before a colon and a tail.
PhraseTexts ==
    LET heads == {patterns[n].lit : n \in 1..Len(patterns)} \cup {<<"A", "n", "s", "w", "e", "r">>}
        colons == {<<>>, <<":">>, <<"<fwcolon>">>}
        tails == TextsOf(1) \cup {<<"1", "<fwstop>", "2">>}
    IN  {h \o c \o t : h \in heads, c \in colons, t \in tails}

StatedTexts == {TextTwoEqualities, TextAnswerIs42, TextAbout314,
                TextBoxedThenAnswerIs, TextAnswerIsThenBoxed}

Texts == TextsOf(MaxFrags) \cup PhraseTexts \cup StatedTexts

(***************************************************************************)
(* Values the variables of the other operations hold while one operation   *)
(* is checked.                                                             *)
(***************************************************************************)
NotCalled == [called |-> FALSE, raised |-> FALSE, val |-> <<>>]
Called(r) == [called |-> TRUE, raised |-> r.raised, val |-> r.val]

ExtractIdle == text = <<>> /\ pattern = "none" /\ extracted = NotCalled
NormIdle == answer = <<>> /\ normalized = NotCalled /\ renormalized = NotCalled
ComputeIdle ==
    /\ predictions = <<>> /\ references = <<>>
    /\ answer_pattern = "none" /\ normalize = TRUE /\ debug = FALSE
    /\ pc = "idle" /\ idx = 0
    /\ extracted_predictions = <<>> /\ normalized_references = <<>>
    /\ correct = 0 /\ details = <<>> /\ paths = <<>> /\ report = [returned |-> FALSE]
LoadIdle == cache = <<>> /\ served = "none" /\ data = <<>> /\ max_samples = 0

(***************************************************************************)
(* One call of _extract_answer(text, pattern).                             *)
(***************************************************************************)
ExtractInit ==
    /\ text \in Texts
    /\ pattern = "none"
    /\ extracted = NotCalled
    /\ NormIdle /\ ComputeIdle /\ LoadIdle

ExtractCall(pat) ==
    /\ ~extracted.called
    /\ pattern' = pat
    /\ extracted' = Called(ExtractAnswer(Str(text), pat))
    /\ UNCHANGED <<text, normVars, computeVars, loadVars>>

ExtractNext == \E pat \in CallerPatterns : ExtractCall(pat)

SpecExtract == ExtractInit /\ [][ExtractNext]_vars

(***************************************************************************)
(* _normalize_answer applied to an answer and then to its own result.  The *)
(* answers are the strings of at most MaxNormLen characters of NormChars.  *)
(***************************************************************************)
MaxNormLen == 4

NormChars == {"<fwlp>", "<fwrp>", "(", "A", "b", " ", "0", "1", ".", "-",
              "<fwstop>", "<times>"}

RECURSIVE StringsOf(_, _)
StringsOf(C, n) ==
    IF n = 0 THEN {<<>>}
    ELSE LET shorter == StringsOf(C, n - 1)
         IN  shorter \cup {t \o <<c>> : t \in shorter, c \in C}

NormalizeInit ==
    /\ answer \in StringsOf(NormChars, MaxNormLen)
    /\ normalized = NotCalled
    /\ renormalized = NotCalled
    /\ ExtractIdle /\ ComputeIdle /\ LoadIdle

NormalizeOnce ==
    /\ ~normalized.called
    /\ normalized' = Called(NormalizeAnswer(Str(answer)))
    /\ UNCHANGED <<answer, renormalized, extractVars, computeVars, loadVars>>

NormalizeTwice ==
    /\ normalized.called
    /\ ~renormalized.called
    /\ renormalized' = Called(NormalizeAnswer(Str(normalized.val)))
    /\ UNCHANGED <<answer, normalized, extractVars, computeVars, loadVars>>

NormalizeNext == NormalizeOnce \/ NormalizeTwice

SpecNormalize == NormalizeInit /\ [][NormalizeNext]_vars

(***************************************************************************)
(* compute(predictions, references, **kwargs).  The call is followed step  *)
(* by step: the length check, the three loops one item at a time, and the  *)
(* return.  pc = "raised" ends a call that an exception left.              *)
(***************************************************************************)
MaxItems == 2

TextParens == <<"(", " ", ")">>

PredValues == {Str(<<>>), Str(TextParens), Str(TextAnswerIs42), Str(TextAbout314),
               None, AnInt}
RefValues == {Str(<<"4", "2">>), Str(<<"<pi>">>), Str(<<"x", "4", "2">>), AnInt}
OptionPatterns == {"none", "optgroup", "invalid"}

RECURSIVE ListsOf(_, _)
ListsOf(V, n) ==
    IF n = 0 THEN {<<>>}
    ELSE LET shorter == ListsOf(V, n - 1)
         IN  shorter \cup {l \o <<v>> : l \in shorter, v \in V}

NoReport == [returned |-> FALSE]

\* No length check: zip would cut the longer list short.
LengthMismatchIgnored(preds, refs) == FALSE

\* len(predictions) != len(references)
LengthMismatch(preds, refs) == Len(preds) # Len(refs)

\* The division without the guard's denominator: off by one.
AccuracyOffByOne(n_correct, preds) == [num |-> n_correct, den |-> Len(preds) + 1]

\* correct / len(predictions) if predictions else 0, as a fraction.
Accuracy(n_correct, preds) ==
    IF preds # <<>> THEN [num |-> n_correct, den |-> Len(preds)]
    ELSE [num |-> 0, den |-> 1]

\* The count raised for every item, correct or not.
TallyAlways(n_correct, is_correct) == n_correct + 1

\* if is_correct: correct += 1
Tally(n_correct, is_correct) == IF is_correct THEN n_correct + 1 ELSE n_correct

\* The dict appended to details for index i (counted from 0, as enumerate does).
Detail(i, is_correct) ==
    [index |-> i,
     prediction |-> predictions[i + 1],
     extracted |-> extracted_predictions[i + 1],
     reference |-> references[i + 1],
     normalized_reference |-> normalized_references[i + 1],
     correct |-> is_correct]

ComputeInit ==
    /\ predictions \in ListsOf(PredValues, MaxItems)
    /\ references \in ListsOf(RefValues, MaxItems)
    /\ answer_pattern \in OptionPatterns
    /\ normalize \in BOOLEAN
    /\ debug \in BOOLEAN
    /\ pc = "start" /\ idx = 0
    /\ extracted_predictions = <<>> /\ normalized_references = <<>>
    /\ correct = 0 /\ details = <<>> /\ paths = <<>> /\ report = NoReport
    /\ ExtractIdle /\ NormIdle /\ LoadIdle

\* raise ValueError on a length mismatch; else read the options.
CheckLengths ==
    /\ pc = "start"
    /\ pc' = IF LengthMismatch(predictions, references) THEN "raised" ELSE "extract"
    /\ UNCHANGED <<predictions, references, answer_pattern, normalize, debug, idx,
                   extracted_predictions, normalized_references, correct, details,
                   paths, report, extractVars, normVars, loadVars>>

\* One turn of  for i, pred in enumerate(predictions)  where got is what
\* _extract_answer did.  With debug on, len(pred) raises TypeError on a pred
\* that is no str.
ExtractOutcome(pred, got) ==
    IF got.raised \/ (debug /\ pred.t # "str")
    THEN /\ pc' = "raised"
         /\ UNCHANGED <<idx, extracted_predictions>>
    ELSE /\ extracted_predictions' =
               Append(extracted_predictions,
                      IF normalize THEN NormalizeAnswer(Str(got.val)).val ELSE got.val)
         /\ idx' = idx + 1
         /\ pc' = pc

ExtractItem ==
    /\ pc = "extract"
    /\ idx < Len(predictions)
    /\ ExtractOutcome(predictions[idx + 1],
                      ExtractAnswer(predictions[idx + 1], answer_pattern))
    /\ UNCHANGED <<predictions, references, answer_pattern, normalize, debug,
                   normalized_references, correct, details, paths, report,
                   extractVars, normVars, loadVars>>

ExtractDone ==
    /\ pc = "extract"
    /\ idx = Len(predictions)
    /\ pc' = "reference"
    /\ idx' = 0
    /\ UNCHANGED <<predictions, references, answer_pattern, normalize, debug,
                   extracted_predictions, normalized_references, correct, details,
                   paths, report, extractVars, normVars, loadVars>>

\* One turn of  for i, ref in enumerate(references).
NormalizeReference ==
    /\ pc = "reference"
    /\ idx < Len(references)
    /\ LET ref == references[idx + 1]
           norm_ref == NormalizeAnswer(ref)
       IN  IF normalize /\ norm_ref.raised
           THEN /\ pc' = "raised"
                /\ UNCHANGED <<idx, normalized_references>>
           ELSE /\ normalized_references' =
                      Append(normalized_references,
                             IF normalize THEN Str(norm_ref.val) ELSE ref)
                /\ idx' = idx + 1
                /\ pc' = pc
    /\ UNCHANGED <<predictions, references, answer_pattern, normalize, debug,
                   extracted_predictions, correct, details, paths, report,
                   extractVars, normVars, loadVars>>

ReferencesDone ==
    /\ pc = "reference"
    /\ idx = Len(references)
    /\ pc' = "compare"
    /\ idx' = 0
    /\ UNCHANGED <<predictions, references, answer_pattern, normalize, debug,
                   extracted_predictions, normalized_references, correct, details,
                   paths, report, extractVars, normVars, loadVars>>

\* zip(extracted_predictions, normalized_references) stops with the shorter.
Pairs == IF Len(extracted_predictions) <= Len(normalized_references)
         THEN Len(extracted_predictions) ELSE Len(normalized_references)

\* One turn of the comparison loop.
CompareItem ==
    /\ pc = "compare"
    /\ idx < Pairs
    /\ LET v == Compare(extracted_predictions[idx + 1], normalized_references[idx + 1])
       IN  IF v.raised
           THEN /\ pc' = "raised"
                /\ UNCHANGED <<idx, correct, details, paths>>
           ELSE /\ correct' = Tally(correct, v.is_correct)
                /\ details' = Append(details, Detail(idx, v.is_correct))
                /\ paths' = Append(paths, v.path)
                /\ idx' = idx + 1
                /\ pc' = pc
    /\ UNCHANGED <<predictions, references, answer_pattern, normalize, debug,
                   extracted_predictions, normalized_references, report,
                   extractVars, normVars, loadVars>>

\* return {'score': accuracy, 'correct': correct, 'total': len(predictions),
\*         'details': details}
Return ==
    /\ pc = "compare"
    /\ idx = Pairs
    /\ report' = [returned |-> TRUE,
                  score |-> Accuracy(correct, predictions),
                  correct |-> correct,
                  total |-> Len(predictions),
                  details |-> details]
    /\ pc' = "done"
    /\ UNCHANGED <<predictions, references, answer_pattern, normalize, debug, idx,
                   extracted_predictions, normalized_references, correct, details,
                   paths, extractVars, normVars, loadVars>>

Next ==
    \/ CheckLengths
    \/ ExtractItem
    \/ ExtractDone
    \/ NormalizeReference
    \/ ReferencesDone
    \/ CompareItem
    \/ Return

Spec == ComputeInit /\ [][Next]_vars

(***************************************************************************)
(* GSM8KDataset.load().  Each step builds a dataset (its subset, split,    *)
(* max_samples, and whether it has a local data_path) and calls load() on  *)
(* it; the datasets share one cache.  A record of the data is its line     *)
(* number in the source; max_samples = 0 stands for None.  The cache is    *)
(* the base class's: load_from_cache gives what save_to_cache stored under *)
(* the key, or None.                                                       *)
(***************************************************************************)
MaxRecords == 3

Subsets == {"main"}
LocalSplits == {"train", "test", "dev"}
urls == {"train", "test"}

CacheKey(subset, split) == <<subset, split>>
CacheKeys == {CacheKey(u, p) : u \in Subsets, p \in LocalSplits}

NotCached == [hit |-> FALSE, data |-> <<>>]
EmptyCache == [k \in CacheKeys |-> NotCached]

\* self.load_from_cache(cache_key): the stored data, or None.
LoadFromCache(store, key, use_cache) ==
    IF use_cache THEN store[key] ELSE NotCached

\* self.save_to_cache(cache_key, data)
SaveToCache(store, key, records, use_cache) ==
    IF use_cache THEN [store EXCEPT ![key] = [hit |-> TRUE, data |-> records]]
    ELSE store

\* The records of a source of n lines.
Records(n) == [k \in 1..n |-> k]

\* if self.max_samples and len(data) > self.max_samples:
\*     data = data[:self.max_samples]
Truncate(records, n) ==
    IF n # 0 /\ Len(records) > n THEN SubSeq(records, 1, n) ELSE records

LoadInit ==
    /\ cache = EmptyCache
    /\ served = "none"
    /\ data = <<>>
    /\ max_samples = 0
    /\ ExtractIdle /\ NormIdle /\ ComputeIdle

\* cached_data is not None: self.data = cached_data
LoadCached(subset, split, n, use_cache) ==
    /\ LoadFromCache(cache, CacheKey(subset, split), use_cache).hit
    /\ data' = LoadFromCache(cache, CacheKey(subset, split), use_cache).data
    /\ served' = "cache"
    /\ max_samples' = n
    /\ UNCHANGED <<cache, extractVars, normVars, computeVars>>

\* _load_from_local, the split's file holding lines lines.
LoadLocal(subset, split, n, use_cache, lines) ==
    /\ ~LoadFromCache(cache, CacheKey(subset, split), use_cache).hit
    /\ data' = Truncate(Records(lines), n)
    /\ cache' = SaveToCache(cache, CacheKey(subset, split), Truncate(Records(lines), n), use_cache)
    /\ served' = "local"
    /\ max_samples' = n
    /\ UNCHANGED <<extractVars, normVars, computeVars>>

\* _load_from_url, the response holding lines non-empty lines.
LoadUrl(subset, split, n, use_cache, lines) ==
    /\ ~LoadFromCache(cache, CacheKey(subset, split), use_cache).hit
    /\ split \in urls
    /\ data' = Truncate(Records(lines), n)
    /\ cache' = SaveToCache(cache, CacheKey(subset, split), Truncate(Records(lines), n), use_cache)
    /\ served' = "url"
    /\ max_samples' = n
    /\ UNCHANGED <<extractVars, normVars, computeVars>>

\* _load_from_url raises ValueError for a split without a URL (and both
\* loaders re-raise what reading the source raised); the new dataset's data
\* stays empty and nothing is cached.
LoadRaises(subset, split, n, use_cache) ==
    /\ ~LoadFromCache(cache, CacheKey(subset, split), use_cache).hit
    /\ data' = <<>>
    /\ served' = "raised"
    /\ max_samples' = n
    /\ UNCHANGED <<cache, extractVars, normVars, computeVars>>

LoadNext ==
    \E subset \in Subsets, split \in LocalSplits, n \in 0..MaxRecords, use_cache \in BOOLEAN :
        \/ LoadCached(subset, split, n, use_cache)
        \/ \E lines \in 0..MaxRecords : LoadLocal(subset, split, n, use_cache, lines)
        \/ \E lines \in 0..MaxRecords : LoadUrl(subset, split, n, use_cache, lines)
        \/ LoadRaises(subset, split, n, use_cache)

SpecLoad == LoadInit /\ [][LoadNext]_vars

(***************************************************************************)
(* The claims.                                                             *)
(***************************************************************************)

\* The matchers of _extract_answer in the order the documentation gives: the
\* caller's pattern, the boxed expression, the lead-in phrases one by one, the
\* fenced output block, the last equality, the last number, the last line's
\* last number, the last line.
StageAt(s, pat, k) ==
    IF k = 1 THEN PatternStage(s, pat)
    ELSE IF k = 2 THEN BoxedStage(s)
    ELSE IF k <= 2 + Len(patterns) THEN LeadInMatch(s, patterns[k - 2])
    ELSE IF k = 3 + Len(patterns) THEN CodeOutputStage(s)
    ELSE IF k = 4 + Len(patterns) THEN EqualsStage(s)
    ELSE IF k = 5 + Len(patterns) THEN NumberStage(s)
    ELSE IF k = 6 + Len(patterns) THEN LastLineNumberStage(s)
    ELSE Match(LastLine(s))

\* The result of the earliest stage from the k-th on that matches.
RECURSIVE FirstMatchingFrom(_, _, _)
FirstMatchingFrom(s, pat, k) ==
    IF StageAt(s, pat, k).ok THEN StageAt(s, pat, k).g
    ELSE FirstMatchingFrom(s, pat, k + 1)

\* C1: for a non-empty text, a call of _extract_answer that returns gives the
\* result of the earliest stage that matches, in the order caller pattern,
\* boxed expression, lead-in phrases in list order, fenced output block, last
\* equality, last number, last line; so a text with a boxed expression (on one
\* line) and an "answer is" phrase yields the trimmed boxed contents.
C1_CascadePriority ==
    (extracted.called /\ ~extracted.raised /\ text # <<>>) =>
        /\ extracted.val = FirstMatchingFrom(text, pattern, 1)
        /\ (/\ ~PatternStage(text, pattern).ok
            /\ BoxedStage(text).ok
            /\ LeadInMatch(text, patterns[4]).ok) => extracted.val = BoxedStage(text).g

\* A text where an "answer is" phrase and a boxed expression both match with
\* different results, and the boxed contents are returned.
C1_Witness ==
    /\ extracted.called /\ ~extracted.raised
    /\ ~PatternStage(text, pattern).ok
    /\ BoxedStage(text).ok
    /\ LeadInMatch(text, patterns[4]).ok
    /\ LeadInMatch(text, patterns[4]).g # BoxedStage(text).g
    /\ extracted.val = BoxedStage(text).g

\* The positions of the "= <number-like expression>" occurrences of a text.
EqualityOccurrences(s) == {i \in 1..Len(s) : EqualsAt(s, i).ok}

EarlierStagesSilent ==
    /\ extracted.called /\ ~extracted.raised
    /\ ~PatternStage(text, pattern).ok
    /\ ~BoxedStage(text).ok
    /\ ~LeadInStage(text).ok
    /\ ~CodeOutputStage(text).ok

\* C8: when no caller pattern, boxed expression, lead-in phrase or fenced
\* output block matches and the text has equality occurrences, the result is
\* the right-hand side of the rightmost one; "a=1\nb=2" yields "2".
C8_RightmostEquality ==
    /\ (EarlierStagesSilent /\ EqualityOccurrences(text) # {}) =>
          extracted.val = Strip(EqualsAt(text, MaxOf(EqualityOccurrences(text))).g)
    /\ (extracted.called /\ text = TextTwoEqualities /\ pattern = "none") =>
          extracted = Called(Returned(<<"2">>))

\* A text with two equalities of different right-hand sides, the rightmost
\* returned.
C8_Witness ==
    /\ EarlierStagesSilent
    /\ Cardinality(EqualityOccurrences(text)) >= 2
    /\ EqualsAt(text, MinOf(EqualityOccurrences(text))).g
          # EqualsAt(text, MaxOf(EqualityOccurrences(text))).g
    /\ extracted.val = Strip(EqualsAt(text, MaxOf(EqualityOccurrences(text))).g)

\* C6: _normalize_answer is idempotent: normalizing a normalized answer gives
\* the same string again.
C6_NormalizeIdempotent ==
    renormalized.called => renormalized.val = normalized.val

\* C2: the report compute returns has total = len(predictions), score =
\* correct / total when total > 0 and score = 0 when total = 0, and
\* 0 <= score <= 1.
C2_ReportTotals ==
    report.returned =>
        /\ report.total = Len(predictions)
        /\ report.score.den > 0
        /\ report.total > 0 => report.score.num * report.total = report.correct * report.score.den
        /\ report.total = 0 => report.score.num = 0
        /\ 0 <= report.score.num /\ report.score.num <= report.score.den

\* A report on two items, one of them correct.
C2_Witness == report.returned /\ report.total = 2 /\ report.correct = 1

\* C3: the report's details hold one verdict per input index, in input order,
\* with the prediction and the reference of that index, and correct is the
\* number of verdicts that are correct.
C3_DetailsInOrder ==
    report.returned =>
        /\ Len(report.details) = Len(predictions)
        /\ \A k \in 1..Len(report.details) :
              /\ report.details[k].index = k - 1
              /\ report.details[k].prediction = predictions[k]
              /\ report.details[k].reference = references[k]
        /\ report.correct = Cardinality({k \in 1..Len(report.details) : report.details[k].correct})

\* A report on two different predictions, the first wrong and the second right.
C3_Witness ==
    /\ report.returned
    /\ Len(report.details) = 2
    /\ predictions[1] # predictions[2]
    /\ ~report.details[1].correct
    /\ report.details[2].correct

\* C4: with len(predictions) # len(references) compute raises before any item
\* is extracted, normalized or compared, and returns no report.
C4_MismatchFailsFirst ==
    Len(predictions) # Len(references) =>
        /\ pc \in {"start", "raised"}
        /\ extracted_predictions = <<>>
        /\ normalized_references = <<>>
        /\ details = <<>>
        /\ ~report.returned

\* A call with lists of different lengths that has raised.
C4_Witness ==
    /\ Len(predictions) = 2 /\ Len(references) = 1
    /\ pc = "raised"

\* C5: with lists of equal length, no failure on a single item leaves compute.
C5_ItemFailuresSwallowed ==
    Len(predictions) = Len(references) => pc # "raised"

\* compute(["I think it's about 3.14"], ["<pi>"]) with the default options.
PiExample ==
    /\ predictions = <<Str(TextAbout314)>>
    /\ references = <<Str(<<"<pi>">>)>>
    /\ answer_pattern = "none" /\ normalize /\ ~debug

\* C7 as stated: the example takes the numeric-tolerance path and the item is
\* marked correct.
C7_PiExampleCorrect ==
    (PiExample /\ pc = "done") =>
        paths = <<"numeric">> /\ report.details[1].correct

\* C7 as amended: the example takes the numeric-tolerance path, 3.14 against
\* 3.14159, and the item is marked incorrect.
C7_PiExampleIncorrect ==
    /\ PiExample => pc # "raised"
    /\ (PiExample /\ pc = "done") =>
          /\ paths = <<"numeric">>
          /\ report.details[1].extracted = <<"3", ".", "1", "4">>
          /\ report.details[1].normalized_reference = Str(<<"<pi>">>)
          /\ ParseFloat(<<"<pi>">>) = [ok |-> TRUE, num |-> 314159]
          /\ ~report.details[1].correct
          /\ report.correct = 0

C7_Witness == PiExample /\ pc = "done"

\* C9: an item whose extracted (and, if enabled, normalized) prediction is the
\* empty string is marked correct against every reference string.
C9_EmptyPredictionCorrect ==
    \A k \in 1..Len(details) :
        (details[k].extracted = <<>> /\ details[k].reference.t = "str") =>
            details[k].correct

\* A prediction that is not empty, extracted and normalized to the empty
\* string, marked correct against "42" by containment.
C9_Witness ==
    \E k \in 1..Len(details) :
        /\ details[k].prediction = Str(TextParens)
        /\ details[k].extracted = <<>>
        /\ details[k].reference = Str(<<"4", "2">>)
        /\ paths[k] = "substring"
        /\ details[k].correct

\* C10: a load() made with max_samples = n >= 1 leaves at most n records in
\* data, whichever source served it.
C10_MaxSamplesBound ==
    (served \in {"cache", "local", "url"} /\ max_samples >= 1) =>
        Len(data) <= max_samples

====
